---- MODULE Spec2Model ----
(***************************************************************************)
(* Model of layer_store.py: the layer stores of a grid painting program.   *)
(*   SetLayerStore       one slot and a special_mode flag                  *)
(*   AdditiveLayerStore  a bounded FIFO queue of layers                    *)
(*   SequenceLayerStore  a set of applied layer names                      *)
(* Each method is one action.  Besides the stores' own fields the state    *)
(* records the last two calls (operation, argument, returned value, raised *)
(* exception, and the fields before the call), so that statements about a  *)
(* call's result and about two calls in a row are state predicates.        *)
(*                                                                         *)
(* Python values: a Layer is identified by its name (a string); None is    *)
(* the string "None"; a returned bool is "True"/"False"; a colour is a     *)
(* 3-tuple of 0..255.                                                      *)
(***************************************************************************)
EXTENDS Integers, Sequences, FiniteSets

\* ------------------------------------------------------------- bounds
\* Largest capacity an AdditiveLayerStore's queue is built with.
MaxCapacity == 3
\* Largest timestamp / x / y passed to get_color.
MaxCoord == 1

\* ------------------------------------------------------------- values
None == "None"
NoColor == <<>>
MaxChannel == 255

\* The layers callers pass in (layer_util.Layer objects, by name).
Layers == {"black", "invert", "lighten"}

\* The layers callers pass to a SequenceLayerStore.
SequenceLayers == Layers \cup {"blue"}

\* layer.name as the sequence of its characters' code points.
NameCodes(name) ==
    CASE name = "black"   -> <<98, 108, 97, 99, 107>>
      [] name = "blue"    -> <<98, 108, 117, 101>>
      [] name = "invert"  -> <<105, 110, 118, 101, 114, 116>>
      [] name = "lighten" -> <<108, 105, 103, 104, 116, 101, 110>>

\* The base colours callers pass to get_color as `start`.
StartColors == {<<0, 0, 0>>, <<10, 200, 250>>}

PyBool(b) == IF b THEN "True" ELSE "False"

Min(a, b) == IF a < b THEN a ELSE b

\* layer.apply(start, timestamp, x, y): the layer's pure colour function.
Apply(layer, start, timestamp, x, y) ==
    CASE layer = "black"   -> <<0, 0, 0>>
      [] layer = "blue"    -> <<0, 0, MaxChannel>>
      [] layer = "invert"  -> <<MaxChannel - start[1], MaxChannel - start[2],
                                MaxChannel - start[3]>>
      [] layer = "lighten" -> <<Min(start[1] + 40, MaxChannel),
                                Min(start[2] + 40, MaxChannel),
                                Min(start[3] + 40, MaxChannel)>>

\* ------------------------------------------------------------- queue ADT
\* CircularQueue, as the store uses it: the items front to back.
QueueIsFull(items, cap) == Len(items) = cap
QueueIsEmpty(items) == Len(items) = 0
QueueAppend(items, item) == Append(items, item)
QueueServeItem(items) == Head(items)
QueueServeRest(items) == Tail(items)

\* list.reverse()
RECURSIVE ListReverse(_)
ListReverse(s) ==
    IF s = <<>> THEN <<>> ELSE Append(ListReverse(Tail(s)), Head(s))

\* ------------------------------------------------------------- state
VARIABLES
    capacityBinding, \* the module namespace's binding of the name `capacity`:
                    \* {} while the name is unbound, {n} once it is bound to n
    built,          \* AdditiveLayerStore: whether __init__ has returned a store
    max_layers,     \* AdditiveLayerStore: the argument __init__ was called with
    capacity,       \* AdditiveLayerStore: capacity of self.layers (0: no store)
    layers,         \* AdditiveLayerStore: self.layers, front to back
    layer,          \* SetLayerStore: self.layer
    special_mode,   \* SetLayerStore: self.special_mode
    lastOp,         \* the last call: "init" (none yet), "__init__", "add", "erase", "special", "get_color"
    arg,            \* its layer argument (None for special and get_color)
    argStart,       \* its start colour (NoColor unless get_color)
    argPos,         \* its <<timestamp, x, y>> (<<>> unless get_color)
    ret,            \* what it returned: "True", "False", "None" or a colour
    exc,            \* the exception it raised, "none" if it returned
    preLayers,      \* AdditiveLayerStore: self.layers before the last call
    preLayer,       \* SetLayerStore: self.layer before the last call
    preSpecial,     \* SetLayerStore: self.special_mode before the last call
    prevOp,         \* the call before the last
    prevArg,        \* its argument
    prevRet,        \* what it returned
    prePreLayers,   \* AdditiveLayerStore: self.layers before the call before the last
    prePreLayer,    \* SetLayerStore: self.layer before the call before the last
    specialParity,  \* SetLayerStore: whether special was called an odd number of times
    tgPhase,        \* SetLayerStore: 1 after a get_color, 2 after one special since
                    \* then, 3 after two (get_color calls between and after
                    \* them allowed), else 0
    tgStart,        \* start colour of the get_color call before the two specials
    tgPos,          \* its <<timestamp, x, y>>
    tgRet,          \* the colour it returned
    tgMode,         \* self.special_mode at that call
    applied_layers, \* SequenceLayerStore: self.applied_layers, a set of names
    preApplied,     \* SequenceLayerStore: self.applied_layers before the last call
    prePreApplied,  \* SequenceLayerStore: the same before the call before the last
    eraseRunStart,  \* number of held layers when the run of erase calls in a
                    \* row that ends with the last call began
    eraseTrue,      \* how many erase calls of that run returned True
    eraseFalse      \* whether an erase call of that run returned False

additiveVars == <<capacityBinding, built, max_layers, capacity, layers, preLayers,
                 prePreLayers, eraseRunStart, eraseTrue, eraseFalse>>
setVars == <<layer, special_mode, preLayer, preSpecial, prePreLayer,
            specialParity, tgPhase, tgStart, tgPos, tgRet, tgMode>>
sequenceVars == <<applied_layers, preApplied, prePreApplied>>
callVars == <<lastOp, arg, argStart, argPos, ret, exc, prevOp, prevArg, prevRet>>
vars == <<additiveVars, setVars, sequenceVars, callVars>>

\* The record of a call: shifts the last call into the previous one.
Called(op, a, start, pos, r, e) ==
    /\ lastOp' = op
    /\ arg' = a
    /\ argStart' = start
    /\ argPos' = pos
    /\ ret' = r
    /\ exc' = e
    /\ prevOp' = lastOp
    /\ prevArg' = arg
    /\ prevRet' = ret

InitCalls ==
    /\ lastOp = "init"
    /\ arg = None
    /\ argStart = NoColor
    /\ argPos = <<>>
    /\ ret = None
    /\ exc = "none"
    /\ prevOp = "init"
    /\ prevArg = None
    /\ prevRet = None

\* ------------------------------------------------------------- AdditiveLayerStore
\* Before any AdditiveLayerStore is built.  The file binds the name
\* `capacity` nowhere, so as written capacityBinding = {}; a caller that
\* binds it in the module namespace gives {n}.
AdditiveInit ==
    /\ capacityBinding \in {{}} \cup {{n} : n \in 1..MaxCapacity}
    /\ built = FALSE
    /\ max_layers = 0
    /\ capacity = 0
    /\ layers = <<>>
    /\ preLayers = <<>>
    /\ prePreLayers = <<>>
    /\ eraseRunStart = 0
    /\ eraseTrue = 0
    /\ eraseFalse = FALSE

\* __init__ (line 90): CircularQueue(capacity) looks the name `capacity` up;
\* the parameter is max_layers, so with the name unbound the call raises
\* NameError and no store exists.
AdditiveInitExc(binding) == IF binding = {} THEN "NameError" ELSE "none"

\* __init__: the capacity the queue is built with, the value of `capacity`
\* and not the argument.
AdditiveInitCapacity(binding, n) == CHOOSE c \in binding : TRUE

\* Faulty add: reports a change even when the layer was rejected.
AdditiveAddRet_AlwaysTrue(items, cap) == "True"

\* add: the queue after the call, and the returned value.
AdditiveAddLayers(items, cap, l) ==
    IF QueueIsFull(items, cap) THEN items ELSE QueueAppend(items, l)

AdditiveAddRet(items, cap) ==
    IF QueueIsFull(items, cap) THEN "False" ELSE "True"

\* Faulty erase: discards the newest layer instead of the oldest.
AdditiveEraseLayers_Newest(items) ==
    IF QueueIsEmpty(items) THEN items ELSE SubSeq(items, 1, Len(items) - 1)

\* erase: the queue after the call, and the returned value.
AdditiveEraseLayers(items) ==
    IF QueueIsEmpty(items) THEN items ELSE QueueServeRest(items)

AdditiveEraseRet(items) ==
    IF QueueIsEmpty(items) THEN "False" ELSE "True"

\* Faulty first loop of special: the list is reset for every served item.
SpecialDrain_Reset(items, acc) ==
    IF QueueIsEmpty(items) THEN acc ELSE <<items[Len(items)]>>

\* special, first loop: serve every item into the list `acc`, reversing the
\* list after each one.
RECURSIVE SpecialDrain(_, _)
SpecialDrain(items, acc) ==
    IF QueueIsEmpty(items)
    THEN acc
    ELSE SpecialDrain(QueueServeRest(items),
                      ListReverse(Append(acc, QueueServeItem(items))))

\* special, second loop: append the list's items to the (now empty) queue.
RECURSIVE SpecialRefill(_, _)
SpecialRefill(items, list) ==
    IF list = <<>>
    THEN items
    ELSE SpecialRefill(QueueAppend(items, Head(list)), Tail(list))

\* special: the queue after the call.
AdditiveSpecialLayers(items) == SpecialRefill(<<>>, SpecialDrain(items, <<>>))

\* get_color: a held layer has no `start` attribute, so the loop body raises
\* on the first item; with nothing held a = 0 and the result is (0, 0, 0).
AdditiveGetColorExc(items) ==
    IF QueueIsEmpty(items) THEN "none" ELSE "AttributeError"

AdditiveGetColorRet(items, start, timestamp, x, y) ==
    IF QueueIsEmpty(items) THEN <<0, 0, 0>> ELSE None

AdditiveStep(newLayers) ==
    /\ layers' = newLayers
    /\ preLayers' = layers
    /\ prePreLayers' = preLayers
    /\ UNCHANGED <<capacityBinding, built, max_layers, capacity>>

NoEraseRun ==
    /\ eraseRunStart' = 0
    /\ eraseTrue' = 0
    /\ eraseFalse' = FALSE

AdditiveConstruct(n) ==
    /\ ~built
    /\ IF AdditiveInitExc(capacityBinding) = "none"
       THEN /\ built' = TRUE
            /\ max_layers' = n
            /\ capacity' = AdditiveInitCapacity(capacityBinding, n)
       ELSE UNCHANGED <<built, max_layers, capacity>>
    /\ Called("__init__", None, NoColor, <<>>, None, AdditiveInitExc(capacityBinding))
    /\ NoEraseRun
    /\ UNCHANGED <<capacityBinding, layers, preLayers, prePreLayers>>
    /\ UNCHANGED <<setVars, sequenceVars>>

AdditiveAdd(l) ==
    /\ built
    /\ AdditiveStep(AdditiveAddLayers(layers, capacity, l))
    /\ Called("add", l, NoColor, <<>>, AdditiveAddRet(layers, capacity), "none")
    /\ NoEraseRun
    /\ UNCHANGED <<setVars, sequenceVars>>

AdditiveErase(l) ==
    /\ built
    /\ AdditiveStep(AdditiveEraseLayers(layers))
    /\ Called("erase", l, NoColor, <<>>, AdditiveEraseRet(layers), "none")
    /\ eraseRunStart' = IF lastOp = "erase" THEN eraseRunStart ELSE Len(layers)
    /\ eraseTrue' = (IF lastOp = "erase" THEN eraseTrue ELSE 0)
                    + (IF AdditiveEraseRet(layers) = "True" THEN 1 ELSE 0)
    /\ eraseFalse' = \/ lastOp = "erase" /\ eraseFalse
                     \/ AdditiveEraseRet(layers) = "False"
    /\ UNCHANGED <<setVars, sequenceVars>>

AdditiveSpecial ==
    /\ built
    /\ AdditiveStep(AdditiveSpecialLayers(layers))
    /\ Called("special", None, NoColor, <<>>, None, "none")
    /\ NoEraseRun
    /\ UNCHANGED <<setVars, sequenceVars>>

AdditiveGetColor(start, timestamp, x, y) ==
    /\ built
    /\ AdditiveStep(layers)
    /\ Called("get_color", None, start, <<timestamp, x, y>>,
              AdditiveGetColorRet(layers, start, timestamp, x, y),
              AdditiveGetColorExc(layers))
    /\ NoEraseRun
    /\ UNCHANGED <<setVars, sequenceVars>>

\* ------------------------------------------------------------- SetLayerStore
SetInit ==
    /\ layer = None
    /\ special_mode = FALSE
    /\ preLayer = None
    /\ preSpecial = FALSE
    /\ prePreLayer = None
    /\ specialParity = FALSE
    /\ tgPhase = 0
    /\ tgStart = NoColor
    /\ tgPos = <<>>
    /\ tgRet = NoColor
    /\ tgMode = FALSE

\* Faulty add: reports a change even when the layer was already held.
SetAddRet_AlwaysTrue(held, l) == "True"

\* add: the slot after the call, and the returned value.
SetAddLayer(held, l) == IF l # held THEN l ELSE held

SetAddRet(held, l) == IF l # held THEN "True" ELSE "False"

\* erase: the slot after the call, and the returned value.
SetEraseLayer(held, l) == None

SetEraseRet(held, l) == "True"

\* Faulty special: sets the flag instead of toggling it.
SetSpecialMode_SetOnly(mode) == TRUE

\* special: the flag after the call.
SetSpecialMode(mode) == ~mode

\* get_color: line 76, `self.layer = ` with no right-hand side, is a syntax
\* error, so the method cannot run: a call gives SyntaxError and returns no
\* colour.  Line 76 is the method's one write to a field, on the branch
\* where no layer is held and the flag is set; having no value to assign,
\* it is never carried out.
SetGetColorExc(held, mode) == "SyntaxError"

SetGetColorRet(held, mode, start, timestamp, x, y) == None

SetStep(newLayer, newMode) ==
    /\ layer' = newLayer
    /\ special_mode' = newMode
    /\ preLayer' = layer
    /\ preSpecial' = special_mode
    /\ prePreLayer' = preLayer

\* The calls seen since the last get_color that two special calls may follow.
SetWatchReset ==
    /\ tgPhase' = 0
    /\ tgStart' = NoColor
    /\ tgPos' = <<>>
    /\ tgRet' = NoColor
    /\ tgMode' = FALSE

SetWatchGetColor(start, pos, r) ==
    IF tgPhase \in {0, 1}
    THEN /\ tgPhase' = 1
         /\ tgStart' = start
         /\ tgPos' = pos
         /\ tgRet' = r
         /\ tgMode' = special_mode
    ELSE UNCHANGED <<tgPhase, tgStart, tgPos, tgRet, tgMode>>

SetWatchSpecial ==
    IF tgPhase \in {1, 2}
    THEN /\ tgPhase' = tgPhase + 1
         /\ UNCHANGED <<tgStart, tgPos, tgRet, tgMode>>
    ELSE SetWatchReset

SetAdd(l) ==
    /\ SetStep(SetAddLayer(layer, l), special_mode)
    /\ Called("add", l, NoColor, <<>>, SetAddRet(layer, l), "none")
    /\ SetWatchReset
    /\ UNCHANGED specialParity
    /\ UNCHANGED <<additiveVars, sequenceVars>>

SetErase(l) ==
    /\ SetStep(SetEraseLayer(layer, l), special_mode)
    /\ Called("erase", l, NoColor, <<>>, SetEraseRet(layer, l), "none")
    /\ SetWatchReset
    /\ UNCHANGED specialParity
    /\ UNCHANGED <<additiveVars, sequenceVars>>

SetSpecial ==
    /\ SetStep(layer, SetSpecialMode(special_mode))
    /\ Called("special", None, NoColor, <<>>, None, "none")
    /\ SetWatchSpecial
    /\ specialParity' = ~specialParity
    /\ UNCHANGED <<additiveVars, sequenceVars>>

\* The call fails before any statement of the method runs, so the step
\* records the fields as they are.
SetGetColor(start, timestamp, x, y) ==
    /\ SetStep(layer, special_mode)
    /\ Called("get_color", None, start, <<timestamp, x, y>>,
              SetGetColorRet(layer, special_mode, start, timestamp, x, y),
              SetGetColorExc(layer, special_mode))
    /\ SetWatchGetColor(start, <<timestamp, x, y>>,
            SetGetColorRet(layer, special_mode, start, timestamp, x, y))
    /\ UNCHANGED specialParity
    /\ UNCHANGED <<additiveVars, sequenceVars>>

\* ------------------------------------------------------------- SequenceLayerStore
SequenceInit ==
    /\ applied_layers = {}
    /\ preApplied = {}
    /\ prePreApplied = {}

\* str < str: lexicographic order of the code points, a proper prefix first.
RECURSIVE CodesLess(_, _)
CodesLess(a, b) ==
    IF b = <<>> THEN FALSE
    ELSE IF a = <<>> THEN TRUE
    ELSE IF Head(a) # Head(b) THEN Head(a) < Head(b)
    ELSE CodesLess(Tail(a), Tail(b))

NameLess(m, n) == CodesLess(NameCodes(m), NameCodes(n))

\* sorted(names): the names in ascending order.
RECURSIVE Sorted(_)
Sorted(names) ==
    IF names = {} THEN <<>>
    ELSE LET least == CHOOSE m \in names : \A n \in names \ {m} : NameLess(m, n)
         IN <<least>> \o Sorted(names \ {least})

\* Faulty add: reports no change when the name was inserted.
SequenceAddRet_AlwaysFalse(applied, name) == "False"

\* add: the set after the call, and the returned value.
SequenceAddApplied(applied, name) ==
    IF name \notin applied THEN applied \cup {name} ELSE applied

SequenceAddRet(applied, name) ==
    IF name \notin applied THEN "True" ELSE "False"

\* erase: set.remove raises KeyError for a name that is not in the set.
SequenceEraseExc(applied, name) ==
    IF name \in applied THEN "none" ELSE "KeyError"

SequenceEraseApplied(applied, name) == applied \ {name}

SequenceEraseRet(applied, name) ==
    IF name \in applied THEN "True" ELSE None

\* Faulty special: takes the lower middle index, (len - 1) // 2.
SequenceMedianName_Lower(applied) ==
    Sorted(applied)[((Cardinality(applied) - 1) \div 2) + 1]

\* special: sorted(self.applied_layers)[len(self.applied_layers) // 2], the
\* index counted from 0.
SequenceMedianName(applied) ==
    Sorted(applied)[(Cardinality(applied) \div 2) + 1]

\* special: indexing the empty sorted list raises IndexError.
SequenceSpecialExc(applied) ==
    IF applied = {} THEN "IndexError" ELSE "none"

SequenceSpecialApplied(applied) ==
    IF applied = {} THEN applied ELSE applied \ {SequenceMedianName(applied)}

\* get_color: the loop runs over the names in the set, which are strings, so
\* `layer.name` raises on the first one; with no name applied the loop body
\* never runs and the start colour is returned.
SequenceGetColorExc(applied) ==
    IF applied = {} THEN "none" ELSE "AttributeError"

SequenceGetColorRet(applied, start, timestamp, x, y) ==
    IF applied = {} THEN start ELSE None

\* get_color: nothing in lines 150-155 writes self.applied_layers.
SequenceGetColorApplied(applied) == applied

SequenceStep(newApplied) ==
    /\ applied_layers' = newApplied
    /\ preApplied' = applied_layers
    /\ prePreApplied' = preApplied

SequenceAdd(l) ==
    /\ SequenceStep(SequenceAddApplied(applied_layers, l))
    /\ Called("add", l, NoColor, <<>>, SequenceAddRet(applied_layers, l), "none")
    /\ UNCHANGED <<additiveVars, setVars>>

SequenceErase(l) ==
    /\ SequenceStep(SequenceEraseApplied(applied_layers, l))
    /\ Called("erase", l, NoColor, <<>>, SequenceEraseRet(applied_layers, l),
              SequenceEraseExc(applied_layers, l))
    /\ UNCHANGED <<additiveVars, setVars>>

SequenceSpecial ==
    /\ SequenceStep(SequenceSpecialApplied(applied_layers))
    /\ Called("special", None, NoColor, <<>>, None, SequenceSpecialExc(applied_layers))
    /\ UNCHANGED <<additiveVars, setVars>>

SequenceGetColor(start, timestamp, x, y) ==
    /\ SequenceStep(SequenceGetColorApplied(applied_layers))
    /\ Called("get_color", None, start, <<timestamp, x, y>>,
              SequenceGetColorRet(applied_layers, start, timestamp, x, y),
              SequenceGetColorExc(applied_layers))
    /\ UNCHANGED <<additiveVars, setVars>>

\* ------------------------------------------------------------- specifications
InitAdditive == AdditiveInit /\ SetInit /\ SequenceInit /\ InitCalls

NextAdditive ==
    \/ \E n \in 1..MaxCapacity : AdditiveConstruct(n)
    \/ \E l \in Layers : AdditiveAdd(l)
    \/ \E l \in Layers : AdditiveErase(l)
    \/ AdditiveSpecial
    \/ \E start \in StartColors, timestamp \in 0..MaxCoord,
          x \in 0..MaxCoord, y \in 0..MaxCoord :
          AdditiveGetColor(start, timestamp, x, y)

SpecAdditive == InitAdditive /\ [][NextAdditive]_vars

InitSet == SetInit /\ AdditiveInit /\ capacityBinding = {} /\ SequenceInit /\ InitCalls

NextSet ==
    \/ \E l \in Layers : SetAdd(l)
    \/ \E l \in Layers : SetErase(l)
    \/ SetSpecial
    \/ \E start \in StartColors, timestamp \in 0..MaxCoord,
          x \in 0..MaxCoord, y \in 0..MaxCoord :
          SetGetColor(start, timestamp, x, y)

SpecSet == InitSet /\ [][NextSet]_vars

InitSequence == SequenceInit /\ AdditiveInit /\ capacityBinding = {} /\ SetInit /\ InitCalls

NextSequence ==
    \/ \E l \in SequenceLayers : SequenceAdd(l)
    \/ \E l \in SequenceLayers : SequenceErase(l)
    \/ SequenceSpecial
    \/ \E start \in StartColors, timestamp \in 0..MaxCoord,
          x \in 0..MaxCoord, y \in 0..MaxCoord :
          SequenceGetColor(start, timestamp, x, y)

SpecSequence == InitSequence /\ [][NextSequence]_vars

\* ------------------------------------------------------------- helpers of the properties
\* The sequence in exactly reversed order.
Reversed(s) == [i \in 1..Len(s) |-> s[Len(s) + 1 - i]]

\* How often x occurs in the sequence.
Occurrences(s, x) == Cardinality({i \in 1..Len(s) : s[i] = x})

\* The sequence without its last element.
AllButLast(s) == SubSeq(s, 1, Len(s) - 1)

\* ------------------------------------------------------------- AdditiveLayerStore properties
\* C1 (as claimed): an AdditiveLayerStore can be constructed with a capacity
\* N > 0, and then holds between 0 and N layers after any sequence of add,
\* erase, special and get_color calls.
C1_AdditiveWithinCapacity ==
    /\ lastOp = "__init__" => (exc = "none" /\ built)
    /\ built =>
        /\ max_layers > 0
        /\ Len(layers) >= 0
        /\ Len(layers) <= max_layers

\* C2: add returns true exactly when fewer than capacity layers were held, and
\* then the layer is the new back element behind the earlier layers in their
\* order; on a full store it returns false and the sequence is unchanged.
C2_AdditiveAdd ==
    lastOp = "add" =>
        /\ exc = "none"
        /\ ret = PyBool(Len(preLayers) < capacity)
        /\ IF Len(preLayers) < capacity
           THEN layers = preLayers \o <<arg>>
           ELSE layers = preLayers

\* C2 witness: an add onto a store with room succeeded, and the next add,
\* onto a full store of at least two layers, was rejected and changed nothing.
C2_Witness ==
    /\ lastOp = "add"
    /\ prevOp = "add"
    /\ prevRet = "True"
    /\ ret = "False"
    /\ Len(preLayers) >= 2
    /\ layers = preLayers

\* C3: erase, for any argument, removes exactly the front layer and returns
\* true on a non-empty store, returns false and changes nothing on an empty
\* one; so of a run of erase calls on n held layers the first n return true
\* and every later one returns false.
C3_AdditiveErase ==
    lastOp = "erase" =>
        /\ exc = "none"
        /\ IF preLayers = <<>>
           THEN ret = "False" /\ layers = preLayers
           ELSE ret = "True" /\ layers = Tail(preLayers)
        /\ ret = "True" => (~eraseFalse /\ eraseTrue <= eraseRunStart)
        /\ ret = "False" => eraseTrue = eraseRunStart

\* C3 witness: after two erases emptied a store of two layers, a third erase
\* returned false.
C3_Witness ==
    /\ lastOp = "erase"
    /\ prevOp = "erase"
    /\ eraseRunStart = 2
    /\ eraseTrue = 2
    /\ eraseFalse
    /\ prevRet = "True"
    /\ ret = "False"
    /\ layers = <<>>

\* C4 (as claimed): special exactly reverses the held sequence.
C4_SpecialReverses ==
    lastOp = "special" => layers = Reversed(preLayers)

\* C5 (as claimed): two special calls in a row restore the held sequence.
C5_SpecialTwiceRestores ==
    (lastOp = "special" /\ prevOp = "special") => layers = prePreLayers

\* C6: special preserves the multiset of held layers: every layer occurs as
\* often after the call as before it, and the length is unchanged.
C6_SpecialKeepsMultiset ==
    lastOp = "special" =>
        /\ Len(layers) = Len(preLayers)
        /\ \A l \in Layers : Occurrences(layers, l) = Occurrences(preLayers, l)

\* C6 witness: special ran on three held layers, one of them held twice, and
\* changed their order.
C6_Witness ==
    /\ lastOp = "special"
    /\ Len(preLayers) = 3
    /\ \E l \in Layers : Occurrences(preLayers, l) = 2
    /\ layers # preLayers

\* C7 (as claimed): on a non-empty store special followed by erase removes
\* the layer that was newest before special and leaves the other layers in
\* the reverse of their previous order.
C7_SpecialThenErase ==
    (lastOp = "erase" /\ prevOp = "special" /\ prePreLayers # <<>>) =>
        /\ ret = "True"
        /\ layers = Reversed(AllButLast(prePreLayers))

\* ------------------------------------------------------------- SetLayerStore properties
\* C8 (as claimed): erase clears the slot, returns true if a layer was held
\* and false if the slot was already empty, and never raises.
C8_SetErase ==
    lastOp = "erase" =>
        /\ exc = "none"
        /\ layer = None
        /\ ret = PyBool(preLayer # None)

\* C9: add returns true and holds the layer when the slot is empty or holds
\* another layer, returns false and changes nothing when the layer is the one
\* held; add(L) right after add(L) returns false, the first having returned
\* true when L was not held before it; the slot holds one layer or none.
C9_SetAdd ==
    /\ layer \in Layers \cup {None}
    /\ lastOp = "add" =>
        /\ exc = "none"
        /\ special_mode = preSpecial
        /\ IF arg # preLayer
           THEN ret = "True" /\ layer = arg
           ELSE ret = "False" /\ layer = preLayer
    /\ (lastOp = "add" /\ prevOp = "add" /\ arg = prevArg) =>
        /\ ret = "False"
        /\ prevRet = PyBool(prePreLayer # arg)

\* C9 witness: add(L) on a slot holding another layer returned true and the
\* same add(L) again returned false.
C9_Witness ==
    /\ lastOp = "add"
    /\ prevOp = "add"
    /\ arg = prevArg
    /\ prePreLayer \in Layers \ {arg}
    /\ prevRet = "True"
    /\ ret = "False"
    /\ layer = arg

\* The per-channel complement of a colour.
Complement(c) == <<MaxChannel - c[1], MaxChannel - c[2], MaxChannel - c[3]>>

\* The colour get_color is to return with the invert flag clear: the held
\* layer applied to the base colour, or the base colour with nothing held.
PlainColor(held, start, pos) ==
    IF held # None THEN Apply(held, start, pos[1], pos[2], pos[3]) ELSE start

\* C10 (as claimed): with the invert flag set get_color returns the
\* per-channel complement of the colour it returns with the flag clear, with
\* a layer held and with none held.
C10_InvertedColor ==
    (lastOp = "get_color" /\ preSpecial = TRUE) =>
        /\ exc = "none"
        /\ ret = Complement(PlainColor(preLayer, argStart, argPos))

C12_SpecialTwice ==
    /\ lastOp = "special" =>
        /\ special_mode = ~preSpecial
        /\ layer = preLayer
    /\ tgPhase = 3 =>
        /\ special_mode = tgMode
        /\ (lastOp = "get_color" /\ argStart = tgStart /\ argPos = tgPos) =>
               (exc = "none" /\ ret = tgRet)

\* C20: only special changes the invert flag: add and erase, whatever they
\* return, leave special_mode as it was, so the flag always equals the parity
\* of the number of special calls made.
C20_FlagIsSpecialParity ==
    /\ special_mode = specialParity
    /\ lastOp \in {"add", "erase"} => special_mode = preSpecial

\* C20 witness: with the flag set by one special call, an add changed the
\* slot and an erase cleared it, and the flag is still set.
C20_Witness ==
    /\ lastOp = "erase"
    /\ prevOp = "add"
    /\ prevRet = "True"
    /\ preLayer # None
    /\ layer = None
    /\ preSpecial = TRUE
    /\ special_mode = TRUE
    /\ specialParity = TRUE

\* ------------------------------------------------------------- SequenceLayerStore properties
\* How many of the names are lexicographically smaller than name.
SmallerNames(names, name) == Cardinality({n \in names : NameLess(n, name)})

\* C13 (as claimed): erase removes layer.name and returns true when the name
\* is applied, returns false and changes nothing when it is absent, and never
\* raises.
C13_SequenceErase ==
    lastOp = "erase" =>
        /\ exc = "none"
        /\ IF arg \in preApplied
           THEN ret = "True" /\ applied_layers = preApplied \ {arg}
           ELSE ret = "False" /\ applied_layers = preApplied

\* C14 (as claimed): special on a store with no applied name is a no-op: it
\* completes without raising and the applied set stays empty.
C14_SpecialOnEmpty ==
    (lastOp = "special" /\ preApplied = {}) =>
        /\ exc = "none"
        /\ applied_layers = {}

\* C15 (as claimed): with an even, non-zero number of applied names special
\* removes the lexicographically smaller of the two middle names, the one
\* with count/2 - 1 smaller names, and no other name.
C15_SpecialEvenLowerMiddle ==
    (lastOp = "special" /\ preApplied # {} /\ Cardinality(preApplied) % 2 = 0) =>
        \E removed \in preApplied :
            /\ applied_layers = preApplied \ {removed}
            /\ SmallerNames(preApplied, removed) = (Cardinality(preApplied) \div 2) - 1

\* C16: with count >= 1 applied names special removes exactly the name at
\* 0-based index floor(count/2) of the ascending names, the one with
\* floor(count/2) smaller names, and every other name stays applied.
C16_SpecialRemovesMedian ==
    (lastOp = "special" /\ preApplied # {}) =>
        /\ exc = "none"
        /\ Cardinality(applied_layers) = Cardinality(preApplied) - 1
        /\ \E removed \in preApplied :
            /\ applied_layers = preApplied \ {removed}
            /\ SmallerNames(preApplied, removed) = Cardinality(preApplied) \div 2

\* C16 witness: special ran on four applied names and on three.
C16_Witness ==
    /\ lastOp = "special"
    /\ prevOp = "special"
    /\ Cardinality(prePreApplied) = 4
    /\ Cardinality(preApplied) = 3
    /\ Cardinality(applied_layers) = 2

\* C17: add inserts layer.name and returns true when the name is not
\* applied, returns false and changes nothing when it is; the applied names
\* are a set of layer names; add(L) then erase(L) on a store where L was
\* absent gives back the previous state.
C17_SequenceAdd ==
    /\ applied_layers \subseteq SequenceLayers
    /\ lastOp = "add" =>
        /\ exc = "none"
        /\ IF arg \notin preApplied
           THEN /\ ret = "True"
                /\ applied_layers = preApplied \cup {arg}
                /\ Cardinality(applied_layers) = Cardinality(preApplied) + 1
           ELSE /\ ret = "False"
                /\ applied_layers = preApplied
    /\ (lastOp = "erase" /\ prevOp = "add" /\ arg = prevArg
            /\ arg \notin prePreApplied) =>
        /\ exc = "none"
        /\ ret = "True"
        /\ applied_layers = prePreApplied

\* C17 witness: a name absent from a store of two names was added and erased
\* again.
C17_Witness ==
    /\ lastOp = "erase"
    /\ prevOp = "add"
    /\ arg = prevArg
    /\ arg \notin prePreApplied
    /\ Cardinality(prePreApplied) = 2
    /\ prevRet = "True"
    /\ applied_layers = prePreApplied

\* The layers of the sequence applied one after the other, each to the
\* colour the one before produced, starting from color.
RECURSIVE Composed(_, _, _)
Composed(seq, color, pos) ==
    IF seq = <<>> THEN color
    ELSE Composed(Tail(seq), Apply(Head(seq), color, pos[1], pos[2], pos[3]), pos)

\* C18 (as claimed): SequenceLayerStore.get_color depends only on which names
\* are applied: it returns the present layers applied in ascending order of
\* name, each to the colour of the one before, starting from the base colour.
C18_SequenceGetColor ==
    lastOp = "get_color" =>
        /\ exc = "none"
        /\ ret = Composed(Sorted(preApplied), argStart, argPos)

\* C19 (as claimed): AdditiveLayerStore.get_color returns the held layers
\* applied oldest to newest, each to the colour of the one before, starting
\* from the base colour; for an empty store the base colour unchanged.
C19_AdditiveGetColor ==
    lastOp = "get_color" =>
        /\ exc = "none"
        /\ ret = Composed(preLayers, argStart, argPos)

====
